---- MODULE Spec2Model ----
(***************************************************************************)
(* genro_toolbox.treestore: TreeStore / TreeStoreNode / TreeStoreBuilder   *)
(* and the valid_children cardinality tables, as a state machine.          *)
(*                                                                         *)
(* Python objects live in two heaps (sequences indexed by object id):      *)
(*   trees[i]  a TreeStore     (nodes, parent, _tag)                       *)
(*   heap[i]   a TreeStoreNode (label, attr, value, parent)                *)
(* An optional value (Python `x | None`) is None == <<>> or Some(x).       *)
(* Strings are TLA+ strings; labels are built by concatenation.            *)
(*                                                                         *)
(* Specifications:                                                         *)
(*   Spec       one typed builder: branch / leaf / up / build              *)
(*   SpecTree   add_node / add_branch on any tree, as_dict and walk on the *)
(*              root, interleaved with the calls of a plain builder        *)
(*   SpecTwo    two builders called in any interleaving                    *)
(*   SpecParse  _parse_cardinality and the valid_children decorator        *)
(*   SpecLive   a caller that builds and then completes the session, under *)
(*              weak fairness of its calls                                 *)
(*   SpecMulti  multi_default.MultiDefault: resolve and the Mapping        *)
(*              methods, with files that come and go                       *)
(*   SpecOptions dict_utils.SmartOptions: attribute assignment, deletion   *)
(*              and as_dict                                                *)
(***************************************************************************)
EXTENDS Integers, Sequences, FiniteSets, TLC

VARIABLES
    trees,          \* heap of TreeStore objects
    heap,           \* heap of TreeStoreNode objects
    _current,       \* TreeStoreBuilder._current (a tree id)
    _tag_stack,     \* TreeStoreBuilder._tag_stack
    _child_counts,  \* TreeStoreBuilder._child_counts: depth -> tag -> count
    ALLOWED_TAGS,   \* class attribute of the builder class in use
    session,        \* the builders of the program: `self` is the _store of
                    \* the builder being called (its other attributes are
                    \* the three variables above), `peer` holds the
                    \* attributes of a second builder, or None; in
                    \* SpecLive `pc` is where the calling program is
    config,         \* the configuration objects of the program: a
                    \* MultiDefault with the files it reads, and a
                    \* SmartOptions with the dict its caller holds
    calls,          \* history: tree id -> the successful branch/leaf calls
                    \*          made with that tree as cursor, in call order
    last            \* history: the last call and how it ended

vars == <<trees, heap, _current, _tag_stack, _child_counts, ALLOWED_TAGS, session,
          config, calls, last>>

----------------------------------------------------------------------------
(* Bounds of the exploration *)

MaxNodes == 3     \* successful branch/leaf calls in a session
MaxDepth == 2     \* scopes open at a time
MaxNamed == 1     \* of those calls, the ones that pass a _name
MaxResolves == 3  \* resolve() runs of a MultiDefault that load sources

----------------------------------------------------------------------------
(* Optional values and strings *)

None == <<>>
Some(x) == <<x>>

\* Python truthiness of `_name` (str | None): None and "" are falsy
Truthy(name) == name # None /\ name[1] # ""

startswith(s, p) == Len(s) >= Len(p) /\ SubSeq(s, 1, Len(p)) = p

\* the empty attribute dict
NoAttr == [k \in {} |-> 0]

\* no configuration object has been made
NoConfig == [multi |-> None, opts |-> None]

----------------------------------------------------------------------------
(* Inputs of the calls *)

Tags == {"doc", "title", "item"}
Names == {None, Some(""), Some("item_1")}
Attrs == {NoAttr}
\* every leaf call passes a value no earlier call has passed
Values == {Len(heap) + 1}

\* outcomes of a call
OK == "ok"
InvalidChildError == "InvalidChildError"
TooManyChildrenError == "TooManyChildrenError"
MissingChildError == "MissingChildError"
ValueError == "ValueError"

----------------------------------------------------------------------------
(* Cardinality tables: _parse_cardinality and the valid_children decorator *)

\* a spec value with its Python type
BoolSpec(b) == [t |-> "bool", v |-> b]
IntSpec(n) == [t |-> "int", v |-> n]
StrSpec(s) == [t |-> "str", v |-> s]
\* a value of any other type, with its repr
OtherSpec(type, repr) == [t |-> type, v |-> repr]

Digits == {"0", "1", "2", "3", "4", "5", "6", "7", "8", "9"}

DigitVal(c) ==
    CASE c = "0" -> 0 [] c = "1" -> 1 [] c = "2" -> 2 [] c = "3" -> 3
      [] c = "4" -> 4 [] c = "5" -> 5 [] c = "6" -> 6 [] c = "7" -> 7
      [] c = "8" -> 8 [] c = "9" -> 9

IsNumeral(s) == Len(s) > 0 /\ \A i \in 1..Len(s) : SubSeq(s, i, i) \in Digits

RECURSIVE int(_)
\* int(s) of a string of decimal digits
int(s) ==
    IF Len(s) = 1 THEN DigitVal(s)
    ELSE 10 * int(SubSeq(s, 1, Len(s) - 1)) + DigitVal(SubSeq(s, Len(s), Len(s)))

\* positions of ':' in s
Colons(s) == {i \in 1..Len(s) : SubSeq(s, i, i) = ":"}

Min(S) == CHOOSE x \in S : \A y \in S : x <= y

\* spec.split(':'): the parts between the colons, in order
split(s) ==
    LET cs == Colons(s)
        bounds == {0} \cup cs \cup {Len(s) + 1}
        nxt(i) == Min({j \in bounds : j > i})
        RECURSIVE from(_)
        from(i) == <<SubSeq(s, i + 1, nxt(i) - 1)>>
                   \o (IF nxt(i) = Len(s) + 1 THEN <<>> ELSE from(nxt(i)))
    IN from(0)

\* variant: an empty max is read like an empty min, as 0
_parse_cardinality_emptyMaxZero(spec) ==
    IF spec = BoolSpec(TRUE) THEN <<0, None>>
    ELSE IF spec.t \in {"int", "bool"}
    THEN (LET n == IF spec.t = "bool" THEN 0 ELSE spec.v IN <<n, Some(n)>>)
    ELSE IF spec.t # "str" THEN ValueError
    ELSE IF Colons(spec.v) = {}
    THEN (IF IsNumeral(spec.v) THEN <<int(spec.v), Some(int(spec.v))>> ELSE ValueError)
    ELSE LET parts == split(spec.v)
         IN IF \/ (parts[1] # "" /\ ~IsNumeral(parts[1]))
               \/ (parts[2] # "" /\ ~IsNumeral(parts[2]))
            THEN ValueError
            ELSE <<IF parts[1] # "" THEN int(parts[1]) ELSE 0,
                   IF parts[2] # "" THEN Some(int(parts[2])) ELSE Some(0)>>

\* (min, max) with max = None for unlimited, or ValueError
_parse_cardinality(spec) ==
    IF spec = BoolSpec(TRUE) THEN <<0, None>>
    ELSE IF spec.t \in {"int", "bool"}
    THEN (LET n == IF spec.t = "bool" THEN 0 ELSE spec.v IN <<n, Some(n)>>)
    ELSE IF spec.t # "str" THEN ValueError
    ELSE IF Colons(spec.v) = {}
    THEN (IF IsNumeral(spec.v) THEN <<int(spec.v), Some(int(spec.v))>> ELSE ValueError)
    ELSE LET parts == split(spec.v)
         IN IF \/ (parts[1] # "" /\ ~IsNumeral(parts[1]))
               \/ (parts[2] # "" /\ ~IsNumeral(parts[2]))
            THEN ValueError
            ELSE <<IF parts[1] # "" THEN int(parts[1]) ELSE 0,
                   IF parts[2] # "" THEN Some(int(parts[2])) ELSE None>>

\* what applying the decorator gives when it raises: no table
Raised(e) == [raised |-> e]

\* variant: a tag given bare keeps (0, None) whatever its named constraint
valid_children_bareWins(allowed, constraints) ==
    IF \E tag \in DOMAIN constraints : _parse_cardinality(constraints[tag]) = ValueError
    THEN Raised(ValueError)
    ELSE [tag \in allowed \cup DOMAIN constraints |->
             IF tag \in allowed THEN <<0, None>>
             ELSE _parse_cardinality(constraints[tag])]

\* the decorator applied to a method: the table it attaches (the bare tags
\* first, then the named constraints, which overwrite), or the ValueError
\* that parsing a constraint raises, in which case nothing is attached
valid_children(allowed, constraints) ==
    IF \E tag \in DOMAIN constraints : _parse_cardinality(constraints[tag]) = ValueError
    THEN Raised(ValueError)
    ELSE [tag \in allowed \cup DOMAIN constraints |->
             IF tag \in DOMAIN constraints THEN _parse_cardinality(constraints[tag])
             ELSE <<0, None>>]

----------------------------------------------------------------------------
(* The builder class in use: a TreeStoreBuilder subclass in the style of   *)
(* the typed builders: `doc` declares its children, the other methods are  *)
(* plain.                                                                   *)
(*     @valid_children(title='1', item='0:2')                               *)
(*     def doc(self, **attr): return self.branch('doc', **attr)             *)
(*     def title / item: undecorated                                        *)
(*     @valid_children(item='2:1')                                          *)
(*     def list(self, **attr): return self.branch('list', **attr)           *)

BuilderMethods ==
    [doc   |-> Some(valid_children({}, [title |-> StrSpec("1"), item |-> StrSpec("0:2")])),
     title |-> None,
     item  |-> None,
     list  |-> Some(valid_children({}, [item |-> StrSpec("2:1")]))]

\* the whitelist of the restricted variant of the class
WhiteList == {"doc", "title"}

----------------------------------------------------------------------------
(* TreeStore *)

_store == 1

TreeStore(parent) == [nodes |-> <<>>, parent |-> parent, _tag |-> None]
TreeStoreNode(label, attr, value, parent) ==
    [label |-> label, attr |-> attr, value |-> value, parent |-> parent]

Scalar(v) == [isTree |-> FALSE, v |-> v]
TreeRef(t) == [isTree |-> TRUE, v |-> t]

\* the labels (dict keys) of a tree
LabelSet(T, H, t) == {H[T[t].nodes[i]].label : i \in 1..Len(T[t].nodes)}

\* variant: an existing key keeps its node (setdefault)
DictSet_keepFirst(T, H, t, label, n) ==
    IF label \in LabelSet(T, H, t) THEN T[t].nodes ELSE Append(T[t].nodes, n)

\* self.nodes[label] = node: a new key is appended, an existing key keeps
\* its position and gets the new node
DictSet(T, H, t, label, n) ==
    LET ns == T[t].nodes
        hit == {i \in 1..Len(ns) : H[ns[i]].label = label}
    IN IF hit = {} THEN Append(ns, n)
       ELSE [i \in 1..Len(ns) |-> IF i \in hit THEN n ELSE ns[i]]

\* variant: every tree below the root reports one level
depth_oneLevel(T, H, t) == IF T[t].parent = None THEN 0 ELSE 1

RECURSIVE depth(_, _, _)
\* TreeStore.depth
depth(T, H, t) ==
    IF T[t].parent = None THEN 0
    ELSE LET owner == H[T[t].parent[1]].parent
         IN IF Len(T[owner].nodes) > 0 THEN depth(T, H, owner) + 1 ELSE 1

RECURSIVE root(_, _, _)
\* TreeStoreNode.root of a node held by a tree
node_root(T, H, n) == root(T, H, H[n].parent)

\* variant: the tree one level up is taken for the root
root_oneUp(T, H, t) == IF T[t].parent = None THEN t ELSE H[T[t].parent[1]].parent

\* TreeStore.root
root(T, H, t) == IF T[t].parent = None THEN t ELSE node_root(T, H, T[t].parent[1])

----------------------------------------------------------------------------
(* TreeStoreBuilder: helpers *)

\* self._tag_stack[-1] if self._tag_stack else None
_get_current_tag(stack) == IF Len(stack) > 0 THEN Some(stack[Len(stack)]) ELSE None

\* variant: looks up the outermost open tag instead of the current one
_get_valid_children_outermost(stack) ==
    IF Len(stack) = 0 THEN None
    ELSE IF stack[1] \notin DOMAIN BuilderMethods THEN None
    ELSE BuilderMethods[stack[1]]

\* the _valid_children table of the method named like the current tag
_get_valid_children(stack) ==
    LET current_tag == _get_current_tag(stack)
    IN IF current_tag = None THEN None
       ELSE IF current_tag[1] \notin DOMAIN BuilderMethods THEN None
       ELSE BuilderMethods[current_tag[1]]

\* self._child_counts.get(depth, {}).get(tag, 0) at the depth of tree cur
_get_child_count(cur, tag) ==
    LET d == depth(trees, heap, cur)
    IN IF d \in DOMAIN _child_counts /\ tag \in DOMAIN _child_counts[d]
       THEN _child_counts[d][tag] ELSE 0

\* variant: the count is kept in the row of depth 0 whatever the cursor depth
_increment_child_count_atRoot(tag) ==
    LET d == 0
        row == IF d \in DOMAIN _child_counts THEN _child_counts[d] ELSE <<>>
        n == IF tag \in DOMAIN row THEN row[tag] ELSE 0
        row2 == [t \in DOMAIN row \cup {tag} |-> IF t = tag THEN n + 1 ELSE row[t]]
    IN [k \in DOMAIN _child_counts \cup {d} |-> IF k = d THEN row2 ELSE _child_counts[k]]

\* the dict after _increment_child_count(tag)
_increment_child_count(tag) ==
    LET d == depth(trees, heap, _current)
        row == IF d \in DOMAIN _child_counts THEN _child_counts[d] ELSE <<>>
        n == IF tag \in DOMAIN row THEN row[tag] ELSE 0
        row2 == [t \in DOMAIN row \cup {tag} |-> IF t = tag THEN n + 1 ELSE row[t]]
    IN [k \in DOMAIN _child_counts \cup {d} |-> IF k = d THEN row2 ELSE _child_counts[k]]

\* the dict after _init_child_counts() with the cursor at depth d
_init_child_counts(counts, d) ==
    IF d \notin DOMAIN counts
    THEN [k \in DOMAIN counts \cup {d} |-> IF k = d THEN <<>> ELSE counts[k]]
    ELSE counts

\* variant: a tag that is not a key of the table is let through
_validate_child_noMembership(tag) ==
    IF ALLOWED_TAGS # None /\ tag \notin ALLOWED_TAGS[1] THEN InvalidChildError
    ELSE LET valid == _get_valid_children(_tag_stack)
         IN IF valid = None THEN OK
            ELSE IF tag \notin DOMAIN valid[1] THEN OK
            ELSE LET max_count == valid[1][tag][2]
                     current_count == _get_child_count(_current, tag)
                 IN IF max_count # None /\ current_count >= max_count[1]
                    THEN TooManyChildrenError ELSE OK

\* variant: the whitelist is consulted only where no table applies
_validate_child_whitelistLast(tag) ==
    LET valid == _get_valid_children(_tag_stack)
    IN IF valid = None
       THEN (IF ALLOWED_TAGS # None /\ tag \notin ALLOWED_TAGS[1]
             THEN InvalidChildError ELSE OK)
       ELSE IF tag \notin DOMAIN valid[1] THEN InvalidChildError
       ELSE LET max_count == valid[1][tag][2]
                current_count == _get_child_count(_current, tag)
            IN IF max_count # None /\ current_count >= max_count[1]
               THEN TooManyChildrenError ELSE OK

\* OK, or the error _validate_child(tag) raises
_validate_child(tag) ==
    IF ALLOWED_TAGS # None /\ tag \notin ALLOWED_TAGS[1] THEN InvalidChildError
    ELSE LET valid == _get_valid_children(_tag_stack)
         IN IF valid = None THEN OK
            ELSE IF tag \notin DOMAIN valid[1] THEN InvalidChildError
            ELSE LET max_count == valid[1][tag][2]
                     current_count == _get_child_count(_current, tag)
                 IN IF max_count # None /\ current_count >= max_count[1]
                    THEN TooManyChildrenError ELSE OK

\* OK, or the error _validate_mandatory_children() raises with the cursor
\* at tree cur and the given tag stack
_validate_mandatory_children(cur, stack) ==
    LET valid == _get_valid_children(stack)
    IN IF valid = None THEN OK
       ELSE IF \E tag \in DOMAIN valid[1] :
                  /\ valid[1][tag][1] > 0
                  /\ _get_child_count(cur, tag) < valid[1][tag][1]
            THEN MissingChildError ELSE OK

\* tag_0, tag_1, ...: the number of labels equal to tag or starting with tag_
_generate_label(tag) ==
    LET existing == {i \in 1..Len(trees[_current].nodes) :
                        LET label == heap[trees[_current].nodes[i]].label
                        IN label = tag \/ startswith(label, tag \o "_")}
    IN tag \o "_" \o ToString(Cardinality(existing))

\* label = _name or self._generate_label(tag)
LabelFor(tag, name) == IF Truthy(name) THEN name[1] ELSE _generate_label(tag)

----------------------------------------------------------------------------
(* History *)

Call(op, tag, name, err) == [op |-> op, tag |-> tag, name |-> name, err |-> err]

\* the number of children of `tag` added to scope t / added without a name
Added(t, tag) == Cardinality({i \in 1..Len(calls[t]) : calls[t][i].tag = tag})
Unnamed(t, tag) ==
    Cardinality({i \in 1..Len(calls[t]) : calls[t][i].tag = tag /\ calls[t][i].name = None})

\* a call that raised (before its _name was looked at): nothing but the
\* history changes
Raise(op, tag, err) ==
    /\ last' = Call(op, tag, None, err)
    /\ UNCHANGED <<trees, heap, _current, _tag_stack, _child_counts, ALLOWED_TAGS, calls>>

\* the successful calls so far that passed a _name
Named == {c \in {<<t, i>> : t \in 1..Len(calls), i \in 1..MaxNodes} :
              c[2] <= Len(calls[c[1]]) /\ calls[c[1]][c[2]].name # None}

\* the session stays within the bounds when `name` is passed next
WithinBounds(name) ==
    /\ Len(heap) < MaxNodes
    /\ name # None => Cardinality(Named) < MaxNamed

----------------------------------------------------------------------------
(* TreeStoreBuilder: operations *)

Init ==
    /\ trees = <<TreeStore(None)>>
    /\ heap = <<>>
    /\ _current = _store
    /\ _tag_stack = <<>>
    /\ _child_counts = <<>>
    /\ ALLOWED_TAGS \in {None, Some(WhiteList)}
    /\ session = [self |-> _store, peer |-> None]
    /\ config = NoConfig
    /\ calls = <<(<<>>)>>
    /\ last = Call("init", None, None, OK)

\* variant: the new tree is entered but its node is not stored in the cursor
\* tree
branch_detached(tag, name, attr) ==
    LET err == _validate_child(tag)
    IN IF err # OK THEN Raise("branch", Some(tag), err)
       ELSE
        LET label == LabelFor(tag, name)
            child == Len(trees) + 1
            n == Len(heap) + 1
            node == TreeStoreNode(label, attr, TreeRef(child), _current)
            heap2 == Append(heap, node)
            trees2 == Append(trees, [TreeStore(Some(n)) EXCEPT !._tag = Some(tag)])
        IN /\ WithinBounds(name)
           /\ Len(_tag_stack) < MaxDepth
           /\ heap' = heap2
           /\ trees' = trees2
           /\ _current' = child
           /\ _tag_stack' = Append(_tag_stack, tag)
           /\ _child_counts' = _init_child_counts(_increment_child_count(tag),
                                                  depth(trees2, heap2, child))
           /\ calls' = Append([calls EXCEPT ![_current] =
                                   Append(@, [tag |-> tag, name |-> name])], <<>>)
           /\ last' = Call("branch", Some(tag), name, OK)
           /\ UNCHANGED ALLOWED_TAGS

branch(tag, name, attr) ==
    LET err == _validate_child(tag)
    IN IF err # OK THEN Raise("branch", Some(tag), err)
       ELSE
        LET label == LabelFor(tag, name)
            child == Len(trees) + 1
            n == Len(heap) + 1
            node == TreeStoreNode(label, attr, TreeRef(child), _current)
            heap2 == Append(heap, node)
            trees2 == Append([trees EXCEPT ![_current].nodes =
                                  DictSet(trees, heap, _current, label, n)],
                             [TreeStore(Some(n)) EXCEPT !._tag = Some(tag)])
        IN /\ WithinBounds(name)
           /\ Len(_tag_stack) < MaxDepth
           /\ heap' = heap2
           /\ trees' = trees2
           /\ _current' = child
           /\ _tag_stack' = Append(_tag_stack, tag)
           /\ _child_counts' = _init_child_counts(_increment_child_count(tag),
                                                  depth(trees2, heap2, child))
           /\ calls' = Append([calls EXCEPT ![_current] =
                                   Append(@, [tag |-> tag, name |-> name])], <<>>)
           /\ last' = Call("branch", Some(tag), name, OK)
           /\ UNCHANGED ALLOWED_TAGS

\* variant: the node is stored before the tag is validated
leaf_commitFirst(tag, value, name, attr) ==
    LET err == _validate_child(tag)
        label == LabelFor(tag, name)
        n == Len(heap) + 1
        node == TreeStoreNode(label, attr, Scalar(value), _current)
    IN /\ WithinBounds(name)
       /\ heap' = Append(heap, node)
       /\ trees' = [trees EXCEPT ![_current].nodes =
                        DictSet(trees, heap, _current, label, n)]
       /\ IF err # OK
          THEN /\ last' = Call("leaf", Some(tag), None, err)
               /\ UNCHANGED <<_child_counts, calls>>
          ELSE /\ _child_counts' = _increment_child_count(tag)
               /\ calls' = [calls EXCEPT ![_current] = Append(@, [tag |-> tag, name |-> name])]
               /\ last' = Call("leaf", Some(tag), name, OK)
       /\ UNCHANGED <<_current, _tag_stack, ALLOWED_TAGS>>

leaf(tag, value, name, attr) ==
    LET err == _validate_child(tag)
    IN IF err # OK THEN Raise("leaf", Some(tag), err)
       ELSE
        LET label == LabelFor(tag, name)
            n == Len(heap) + 1
            node == TreeStoreNode(label, attr, Scalar(value), _current)
        IN /\ WithinBounds(name)
           /\ heap' = Append(heap, node)
           /\ trees' = [trees EXCEPT ![_current].nodes =
                            DictSet(trees, heap, _current, label, n)]
           /\ _child_counts' = _increment_child_count(tag)
           /\ calls' = [calls EXCEPT ![_current] = Append(@, [tag |-> tag, name |-> name])]
           /\ last' = Call("leaf", Some(tag), name, OK)
           /\ UNCHANGED <<_current, _tag_stack, ALLOWED_TAGS>>

\* variant: up() at the root returns without raising
up_silentAtRoot ==
    IF trees[_current].parent = None
    THEN /\ last' = Call("up", None, None, OK)
         /\ UNCHANGED <<trees, heap, _current, _tag_stack, _child_counts, ALLOWED_TAGS, calls>>
    ELSE LET err == _validate_mandatory_children(_current, _tag_stack)
             parent_node == trees[_current].parent[1]
         IN IF err # OK THEN Raise("up", None, err)
            ELSE /\ _current' = heap[parent_node].parent
                 /\ _tag_stack' = SubSeq(_tag_stack, 1, Len(_tag_stack) - 1)
                 /\ last' = Call("up", None, None, OK)
                 /\ UNCHANGED <<trees, heap, _child_counts, ALLOWED_TAGS, calls>>

\* variant: a closed scope hands the cursor to the root store
up_toStore ==
    IF trees[_current].parent = None THEN Raise("up", None, ValueError)
    ELSE LET err == _validate_mandatory_children(_current, _tag_stack)
         IN IF err # OK THEN Raise("up", None, err)
            ELSE /\ _current' = _store
                 /\ _tag_stack' = SubSeq(_tag_stack, 1, Len(_tag_stack) - 1)
                 /\ last' = Call("up", None, None, OK)
                 /\ UNCHANGED <<trees, heap, _child_counts, ALLOWED_TAGS, calls>>

up ==
    IF trees[_current].parent = None THEN Raise("up", None, ValueError)
    ELSE LET err == _validate_mandatory_children(_current, _tag_stack)
             parent_node == trees[_current].parent[1]
         IN IF err # OK THEN Raise("up", None, err)
            ELSE /\ _current' = heap[parent_node].parent
                 /\ _tag_stack' = SubSeq(_tag_stack, 1, Len(_tag_stack) - 1)
                 /\ last' = Call("up", None, None, OK)
                 /\ UNCHANGED <<trees, heap, _child_counts, ALLOWED_TAGS, calls>>

RECURSIVE BuildLoop_keepStack(_, _)
\* variant: the loop moves the cursor and leaves the tag stack alone
BuildLoop_keepStack(cur, stack) ==
    IF trees[cur].parent = None THEN [cur |-> cur, stack |-> stack, err |-> OK]
    ELSE LET err == _validate_mandatory_children(cur, stack)
             parent_node == trees[cur].parent[1]
         IN IF err # OK THEN [cur |-> cur, stack |-> stack, err |-> err]
            ELSE BuildLoop_keepStack(heap[parent_node].parent, stack)

RECURSIVE BuildLoop(_, _)
\* the while loop of build() from cursor cur and tag stack `stack`: where it
\* stops and how
BuildLoop(cur, stack) ==
    IF trees[cur].parent = None THEN [cur |-> cur, stack |-> stack, err |-> OK]
    ELSE LET err == _validate_mandatory_children(cur, stack)
             parent_node == trees[cur].parent[1]
         IN IF err # OK THEN [cur |-> cur, stack |-> stack, err |-> err]
            ELSE BuildLoop(heap[parent_node].parent,
                           IF Len(stack) > 0 THEN SubSeq(stack, 1, Len(stack) - 1)
                           ELSE stack)

build ==
    LET r == BuildLoop(_current, _tag_stack)
    IN /\ _current' = r.cur
       /\ _tag_stack' = r.stack
       /\ last' = Call("build", None, None, r.err)
       /\ UNCHANGED <<trees, heap, _child_counts, ALLOWED_TAGS, calls>>

\* one builder, called by one caller
Next ==
    \/ \E tag \in Tags, name \in Names, attr \in Attrs :
           branch(tag, name, attr) /\ UNCHANGED <<session, config>>
    \/ \E tag \in Tags, value \in Values, name \in Names, attr \in Attrs :
           leaf(tag, value, name, attr) /\ UNCHANGED <<session, config>>
    \/ up /\ UNCHANGED <<session, config>>
    \/ build /\ UNCHANGED <<session, config>>

Spec == Init /\ [][Next]_vars

----------------------------------------------------------------------------
(* A caller that builds and then completes the session: it calls build()   *)
(* and, each time build() raises MissingChildError, adds a leaf of the tag *)
(* the error names and calls build() again.                                *)

BranchTags == {"doc", "list"}
LeafTags == {"item", "title"}

\* the tag named by the MissingChildError of _validate_mandatory_children()
\* (each table of BuilderMethods has one tag with a minimum, so the order of
\* the loop over the table does not matter)
MissingTag(cur, stack) ==
    LET valid == _get_valid_children(stack)
    IN CHOOSE tag \in DOMAIN valid[1] :
           /\ valid[1][tag][1] > 0
           /\ _get_child_count(cur, tag) < valid[1][tag][1]

RECURSIVE Needed(_, _)
\* the leaves the open scopes from tree cur up to the root still require
Needed(cur, stack) ==
    IF trees[cur].parent = None THEN 0
    ELSE LET valid == _get_valid_children(stack)
             due(tag) == IF valid[1][tag][1] > _get_child_count(cur, tag)
                         THEN valid[1][tag][1] - _get_child_count(cur, tag) ELSE 0
             RECURSIVE sum(_)
             sum(S) == IF S = {} THEN 0
                       ELSE LET tag == CHOOSE x \in S : TRUE
                            IN due(tag) + sum(S \ {tag})
         IN (IF valid = None THEN 0 ELSE sum(DOMAIN valid[1]))
            + Needed(heap[trees[cur].parent[1]].parent,
                     SubSeq(stack, 1, Len(stack) - 1))

InitLive ==
    /\ trees = <<TreeStore(None)>>
    /\ heap = <<>>
    /\ _current = _store
    /\ _tag_stack = <<>>
    /\ _child_counts = <<>>
    /\ ALLOWED_TAGS = None
    /\ session = [self |-> _store, peer |-> None, pc |-> "building"]
    /\ config = NoConfig
    /\ calls = <<(<<>>)>>
    /\ last = Call("init", None, None, OK)

\* the caller builds: any branch, leaf or up
building ==
    /\ session.pc = "building"
    /\ \/ \E tag \in BranchTags : branch(tag, None, NoAttr)
       \/ \E tag \in LeafTags, value \in Values : leaf(tag, value, None, NoAttr)
       \/ up
    /\ UNCHANGED <<session, config>>

\* the caller turns to completing the session (while the leaves the open
\* scopes require still fit the bound on nodes)
complete ==
    /\ session.pc = "building"
    /\ Len(heap) + Needed(_current, _tag_stack) <= MaxNodes
    /\ session' = [session EXCEPT !.pc = "finishing"]
    /\ UNCHANGED <<trees, heap, _current, _tag_stack, _child_counts, ALLOWED_TAGS,
                   config, calls, last>>

\* store = builder.build(): done when it returns, otherwise the missing
\* child is to be supplied
finish ==
    /\ session.pc = "finishing"
    /\ build
    /\ session' = [session EXCEPT !.pc = IF last'.err = OK THEN "done" ELSE "supplying"]
    /\ UNCHANGED config

\* builder.leaf(tag, value) for the tag the error named, then build() again
supply ==
    /\ session.pc = "supplying"
    /\ \E value \in Values : leaf(MissingTag(_current, _tag_stack), value, None, NoAttr)
    /\ session' = [session EXCEPT !.pc = "finishing"]
    /\ UNCHANGED config

NextLive ==
    \/ building
    \/ complete
    \/ finish
    \/ supply

\* the caller is a sequential program: its next call is always made
SpecLive == InitLive /\ [][NextLive]_vars /\ WF_vars(finish) /\ WF_vars(supply)

----------------------------------------------------------------------------
(* TreeStore: the methods called directly, on any tree of the hierarchy    *)

TreeLabels == {"", "alice", "contact"}
\* an attribute dict: empty, or with a key that is also a label (the
\* values of a dict are value objects, as the values of the leaves are)
ContactAttr == [contact |-> [isTree |-> FALSE, v |-> 0]]
TreeAttrs == {NoAttr, ContactAttr}
LeafAttrs == {ContactAttr}
\* the builder calls interleaved with the direct ones
TreeTags == {"item"}

\* history: a TreeStore method called on tree t, and what it returned
TreeCall(op, t, label, ret) ==
    [op |-> op, tag |-> None, name |-> None, err |-> OK,
     on |-> t, label |-> label, ret |-> ret]

\* TreeStore.add_node(label, attr, value) on tree t; returns the node
add_node(t, label, attr, value) ==
    LET n == Len(heap) + 1
        node == TreeStoreNode(label, attr, Scalar(value), t)
    IN /\ Len(heap) < MaxNodes
       /\ heap' = Append(heap, node)
       /\ trees' = [trees EXCEPT ![t].nodes = DictSet(trees, heap, t, label, n)]
       /\ calls' = calls
       /\ last' = TreeCall("add_node", t, Some(label), n)
       /\ UNCHANGED <<_current, _tag_stack, _child_counts, ALLOWED_TAGS, session, config>>

\* variant: the child store is not linked back to its node
add_branch_noBackref(t, label, attr) ==
    LET n == Len(heap) + 1
        child == Len(trees) + 1
        node == TreeStoreNode(label, attr, TreeRef(child), t)
    IN /\ Len(heap) < MaxNodes
       /\ depth(trees, heap, t) < MaxDepth
       /\ heap' = Append(heap, node)
       /\ trees' = Append([trees EXCEPT ![t].nodes = DictSet(trees, heap, t, label, n)],
                          TreeStore(None))
       /\ calls' = Append(calls, <<>>)
       /\ last' = TreeCall("add_branch", t, Some(label), n)
       /\ UNCHANGED <<_current, _tag_stack, _child_counts, ALLOWED_TAGS, session, config>>

\* TreeStore.add_branch(label, attr) on tree t; returns the node
add_branch(t, label, attr) ==
    LET n == Len(heap) + 1
        child == Len(trees) + 1
        child_store == TreeStore(None)
        node == TreeStoreNode(label, attr, TreeRef(child), t)
    IN /\ Len(heap) < MaxNodes
       /\ depth(trees, heap, t) < MaxDepth
       /\ heap' = Append(heap, node)
       /\ trees' = Append([trees EXCEPT ![t].nodes = DictSet(trees, heap, t, label, n)],
                          [child_store EXCEPT !.parent = Some(n)])
       /\ calls' = Append(calls, <<>>)
       /\ last' = TreeCall("add_branch", t, Some(label), n)
       /\ UNCHANGED <<_current, _tag_stack, _child_counts, ALLOWED_TAGS, session, config>>

\* a Python dict built by the call (a new object), and its items
NewDict(f) == [dict |-> f]
Items(d) == d.dict

\* node.is_branch
is_branch(H, n) == H[n].value.isTree

RECURSIVE as_dict(_, _, _)
\* variant: on a key collision the attribute is kept
as_dict_attrWins(T, H, t) ==
    NewDict([label \in LabelSet(T, H, t) |->
        LET n == CHOOSE m \in {T[t].nodes[i] : i \in 1..Len(T[t].nodes)} : H[m].label = label
        IN IF is_branch(H, n)
           THEN LET child_dict == as_dict(T, H, H[n].value.v)
                IN IF H[n].attr # NoAttr
                   THEN NewDict(H[n].attr @@ Items(child_dict))
                   ELSE child_dict
           ELSE H[n].value])

\* TreeStore.as_dict() of tree t: a dict whose entries are the value
\* objects of the leaves and the dicts built for the branches
as_dict(T, H, t) ==
    NewDict([label \in LabelSet(T, H, t) |->
        LET n == CHOOSE m \in {T[t].nodes[i] : i \in 1..Len(T[t].nodes)} : H[m].label = label
        IN IF is_branch(H, n)
           THEN LET child_dict == as_dict(T, H, H[n].value.v)
                IN IF H[n].attr # NoAttr
                   THEN NewDict(Items(child_dict) @@ H[n].attr)
                   ELSE child_dict
           ELSE H[n].value])

\* variant: the call hands out a live view of the store
as_dict_call_liveView(t) ==
    /\ last' = TreeCall("as_dict", t, None, [view |-> t])
    /\ UNCHANGED <<trees, heap, _current, _tag_stack, _child_counts, ALLOWED_TAGS,
                   session, config, calls>>

\* the call s.as_dict(): reads only
as_dict_call(t) ==
    /\ last' = TreeCall("as_dict", t, None, as_dict(trees, heap, t))
    /\ UNCHANGED <<trees, heap, _current, _tag_stack, _child_counts, ALLOWED_TAGS,
                   session, config, calls>>

RECURSIVE walk(_, _, _, _, _)
\* the pairs TreeStore.walk(_prefix) yields for the nodes of tree t from
\* position i on: <<path, node>>
walk(T, H, t, _prefix, i) ==
    IF i > Len(T[t].nodes) THEN <<>>
    ELSE LET n == T[t].nodes[i]
             label == H[n].label
             path == IF _prefix # "" THEN _prefix \o "." \o label ELSE label
         IN <<(<<path, n>>)>>
            \o (IF is_branch(H, n) THEN walk(T, H, H[n].value.v, path, 1) ELSE <<>>)
            \o walk(T, H, t, _prefix, i + 1)

\* the call list(s.walk()): a new generator, run to its end
walk_call(t) ==
    /\ last' = TreeCall("walk", t, None, walk(trees, heap, t, "", 1))
    /\ UNCHANGED <<trees, heap, _current, _tag_stack, _child_counts, ALLOWED_TAGS,
                   session, config, calls>>

InitTree == Init /\ ALLOWED_TAGS = None

\* direct insertions into any tree, interleaved with the calls of a plain
\* builder; the store is projected and walked from its root
NextTree ==
    \/ \E t \in DOMAIN trees, label \in TreeLabels, attr \in LeafAttrs, value \in Values :
           add_node(t, label, attr, value)
    \/ \E t \in DOMAIN trees, label \in TreeLabels, attr \in TreeAttrs :
           add_branch(t, label, attr)
    \/ \E t \in {_store} : as_dict_call(t)
    \/ \E t \in {_store} : walk_call(t)
    \/ \E tag \in TreeTags : branch(tag, None, NoAttr) /\ UNCHANGED <<session, config>>
    \/ \E tag \in TreeTags, value \in Values :
           leaf(tag, value, None, NoAttr) /\ UNCHANGED <<session, config>>
    \/ up /\ UNCHANGED <<session, config>>

SpecTree == InitTree /\ [][NextTree]_vars

----------------------------------------------------------------------------
(* Two builders of the same class, called in any interleaving             *)

\* variant: the root store is a class attribute, one for all instances
__init___sharedStore(store) ==
    [_store |-> _store, _current |-> _store, _tag_stack |-> <<>>, _child_counts |-> <<>>]

\* TreeStoreBuilder.__init__: the attributes of a new builder, `store`
\* being the TreeStore() it has just created
__init__(store) ==
    [_store |-> store, _current |-> store, _tag_stack |-> <<>>, _child_counts |-> <<>>]

TwoTags == {"doc", "title"}
TwoValues == {0}

\* a = TreeStoreBuilder(); b = TreeStoreBuilder(); the caller holds a
InitTwo ==
    LET a == __init__(1)
        b == __init__(2)
    IN /\ trees = <<TreeStore(None), TreeStore(None)>>
       /\ heap = <<>>
       /\ _current = a._current
       /\ _tag_stack = a._tag_stack
       /\ _child_counts = a._child_counts
       /\ ALLOWED_TAGS = None
       /\ session = [self |-> a._store, peer |-> Some(b)]
       /\ config = NoConfig
       /\ calls = <<(<<>>), (<<>>)>>
       /\ last = Call("init", None, None, OK)

\* the caller turns to the other builder: its attributes become the ones
\* the methods work on, those of the builder left are kept aside
switch ==
    /\ session.peer # None
    /\ LET b == session.peer[1]
       IN /\ _current' = b._current
          /\ _tag_stack' = b._tag_stack
          /\ _child_counts' = b._child_counts
          /\ session' = [self |-> b._store,
                         peer |-> Some([_store |-> session.self,
                                        _current |-> _current,
                                        _tag_stack |-> _tag_stack,
                                        _child_counts |-> _child_counts])]
    /\ last' = Call("switch", None, None, OK)
    /\ UNCHANGED <<trees, heap, ALLOWED_TAGS, config, calls>>

NextTwo ==
    \/ \E tag \in TwoTags : branch(tag, None, NoAttr) /\ UNCHANGED <<session, config>>
    \/ \E tag \in TwoTags, value \in TwoValues :
           leaf(tag, value, None, NoAttr) /\ UNCHANGED <<session, config>>
    \/ up /\ UNCHANGED <<session, config>>
    \/ build /\ UNCHANGED <<session, config>>
    \/ switch

SpecTwo == InitTwo /\ [][NextTwo]_vars

----------------------------------------------------------------------------
(* Registration of the cardinality tables: the calls made while the         *)
(* builder class is defined                                                 *)

SpecInputs ==
    {BoolSpec(TRUE), BoolSpec(FALSE), IntSpec(0), IntSpec(1), IntSpec(3),
     StrSpec("0"), StrSpec("1"), StrSpec("12"),
     StrSpec("0:"), StrSpec("1:"), StrSpec(":"), StrSpec(":5"),
     StrSpec("0:3"), StrSpec("1:3"), StrSpec("2:10"), StrSpec("a"),
     OtherSpec("float", "1.5"), OtherSpec("NoneType", "None")}
BareTags == {"div", "span"}
NamedTags == {"div", "p"}

\* history: a module-level function called, and what it returned or raised
FuncCall(op, args, ret, raised) ==
    [op |-> op, tag |-> None, name |-> None,
     err |-> IF raised THEN ValueError ELSE OK,
     args |-> args, ret |-> ret]

\* the call _parse_cardinality(spec)
_parse_cardinality_call(spec) ==
    /\ last' = FuncCall("_parse_cardinality", spec, _parse_cardinality(spec),
                        _parse_cardinality(spec) = ValueError)
    /\ UNCHANGED <<trees, heap, _current, _tag_stack, _child_counts, ALLOWED_TAGS,
                   session, config, calls>>

\* @valid_children(*allowed, **constraints) applied to a method
valid_children_call(allowed, constraints) ==
    /\ last' = FuncCall("valid_children",
                        [allowed |-> allowed, constraints |-> constraints],
                        valid_children(allowed, constraints),
                        valid_children(allowed, constraints) = Raised(ValueError))
    /\ UNCHANGED <<trees, heap, _current, _tag_stack, _child_counts, ALLOWED_TAGS,
                   session, config, calls>>

NextParse ==
    \/ \E spec \in SpecInputs : _parse_cardinality_call(spec)
    \/ \E allowed \in SUBSET BareTags, named \in SUBSET NamedTags :
           \E constraints \in [named -> SpecInputs] :
               valid_children_call(allowed, constraints)

SpecParse == InitTree /\ [][NextParse]_vars

----------------------------------------------------------------------------
(* multi_default: MultiDefault over dict and file sources, without types   *)

FileNotFoundError == "FileNotFoundError"
KeyError == "KeyError"

\* a configuration value: a string, or a nested mapping
Str(x) == [isMap |-> FALSE, v |-> x]
Map(m) == [isMap |-> TRUE, v |-> m]

DictSource(d) == [kind |-> "dict", data |-> d]
FileSource(path) == [kind |-> "file", path |-> path]

\* the sources a MultiDefault is built from, and what the file holds
FilePaths == {"a.json"}
FileData(path) == [server |-> Map([host |-> Str("file")])]
Sources ==
    {DictSource([server_host |-> Str("dict"), debug |-> Str("on")]),
     DictSource([server |-> Map([host |-> Str("nested"), port |-> Str("80")])]),
     FileSource("a.json")}
Keys == {"server_host", "debug"}

\* f.update(g): the entries of g laid over those of f
update(f, g) == [k \in DOMAIN f \cup DOMAIN g |-> IF k \in DOMAIN g THEN g[k] ELSE f[k]]

RECURSIVE flatten_dict(_, _)
\* flatten_dict(data, "_", parent_key)
flatten_dict(data, parent_key) ==
    LET new_key(key) == IF parent_key # "" THEN parent_key \o "_" \o key ELSE key
        RECURSIVE items(_)
        items(ks) ==
            IF ks = {} THEN <<>>
            ELSE LET key == CHOOSE k \in ks : TRUE
                     rest == items(ks \ {key})
                 IN IF data[key].isMap
                    THEN update(rest, flatten_dict(data[key].v, new_key(key)))
                    ELSE update(rest, [k \in {new_key(key)} |-> data[key]])
    IN items(DOMAIN data)

\* load_file(path) with the files that exist: the data, or FileNotFoundError
load_file(path, files) ==
    IF path \notin files THEN [err |-> FileNotFoundError, data |-> <<>>]
    ELSE [err |-> OK, data |-> FileData(path)]

\* MultiDefault._load_source(source)
_load_source(source, files) ==
    IF source.kind = "dict" THEN [err |-> OK, data |-> source.data]
    ELSE load_file(source.path, files)

\* MultiDefault.__init__(*sources, skip_missing=...)
MultiDefault(sources, skip_missing) ==
    [_sources |-> sources, _skip_missing |-> skip_missing, _resolved |-> None]

RECURSIVE ResolveLoop(_, _, _, _, _)
\* the for loop of resolve() from source i on: how it ends, the result dict
\* so far and the sources _load_source was called for
ResolveLoop(self, files, i, result, loaded) ==
    IF i > Len(self._sources) THEN [err |-> OK, result |-> result, loaded |-> loaded]
    ELSE LET r == _load_source(self._sources[i], files)
             tried == Append(loaded, i)
         IN IF r.err = FileNotFoundError
            THEN (IF self._skip_missing
                  THEN ResolveLoop(self, files, i + 1, result, tried)
                  ELSE [err |-> r.err, result |-> result, loaded |-> tried])
            ELSE LET flat_data == IF DOMAIN r.data # {} THEN flatten_dict(r.data, "")
                                  ELSE <<>>
                 IN ResolveLoop(self, files, i + 1, update(result, flat_data), tried)

\* variant: the merged mapping is returned but not kept
resolve_noCache(c) ==
    LET self == c.multi[1]
    IN IF self._resolved # None
       THEN [err |-> OK, obj |-> self._resolved, loaded |-> <<>>, config |-> c]
       ELSE LET r == ResolveLoop(self, c.files, 1, <<>>, <<>>)
                made == [c EXCEPT !.made = @ + 1]
            IN IF r.err # OK
               THEN [err |-> r.err, obj |-> None, loaded |-> r.loaded, config |-> made]
               ELSE LET result == [id |-> c.made + 1, items |-> r.result]
                    IN [err |-> OK, obj |-> Some(result), loaded |-> r.loaded,
                        config |-> made]

\* MultiDefault.resolve() in configuration c: how it ends, the dict object
\* it returns, the sources it loaded on the way, and the configuration after
resolve(c) ==
    LET self == c.multi[1]
    IN IF self._resolved # None
       THEN [err |-> OK, obj |-> self._resolved, loaded |-> <<>>, config |-> c]
       ELSE LET r == ResolveLoop(self, c.files, 1, <<>>, <<>>)
                made == [c EXCEPT !.made = @ + 1]
            IN IF r.err # OK
               THEN [err |-> r.err, obj |-> None, loaded |-> r.loaded, config |-> made]
               ELSE LET result == [id |-> c.made + 1, items |-> r.result]
                    IN [err |-> OK, obj |-> Some(result), loaded |-> r.loaded,
                        config |-> [made EXCEPT !.multi[1]._resolved = Some(result)]]

\* history: a MultiDefault method called: how it ended, the dict object it
\* worked on, what it returned, and the sources it loaded
MultiCall(op, key, err, obj, ret, loaded) ==
    [op |-> op, tag |-> None, name |-> None, err |-> err,
     key |-> key, obj |-> obj, ret |-> ret, loaded |-> loaded]

\* a resolve() that has to load stays within the bound
CanResolve == config.multi[1]._resolved # None \/ config.made < MaxResolves

\* the call defaults.resolve()
resolve_call ==
    LET r == resolve(config)
    IN /\ CanResolve
       /\ config' = r.config
       /\ last' = MultiCall("resolve", None, r.err, r.obj, r.obj, r.loaded)
       /\ UNCHANGED <<trees, heap, _current, _tag_stack, _child_counts, ALLOWED_TAGS,
                      session, calls>>

\* the call defaults[key]
__getitem__(key) ==
    LET r == resolve(config)
    IN /\ CanResolve
       /\ config' = r.config
       /\ last' = IF r.err # OK THEN MultiCall("__getitem__", Some(key), r.err, None, None, r.loaded)
                  ELSE IF key \notin DOMAIN r.obj[1].items
                  THEN MultiCall("__getitem__", Some(key), KeyError, r.obj, None, r.loaded)
                  ELSE MultiCall("__getitem__", Some(key), OK, r.obj,
                                 Some(r.obj[1].items[key].v), r.loaded)
       /\ UNCHANGED <<trees, heap, _current, _tag_stack, _child_counts, ALLOWED_TAGS,
                      session, calls>>

\* the call len(defaults)
__len__ ==
    LET r == resolve(config)
    IN /\ CanResolve
       /\ config' = r.config
       /\ last' = IF r.err # OK THEN MultiCall("__len__", None, r.err, None, None, r.loaded)
                  ELSE MultiCall("__len__", None, OK, r.obj,
                                 Some(Cardinality(DOMAIN r.obj[1].items)), r.loaded)
       /\ UNCHANGED <<trees, heap, _current, _tag_stack, _child_counts, ALLOWED_TAGS,
                      session, calls>>

\* the environment: a file is written or removed between two calls
write_file(path) ==
    /\ path \notin config.files
    /\ config' = [config EXCEPT !.files = @ \cup {path}]
    /\ last' = MultiCall("write_file", Some(path), OK, None, None, <<>>)
    /\ UNCHANGED <<trees, heap, _current, _tag_stack, _child_counts, ALLOWED_TAGS,
                   session, calls>>

remove_file(path) ==
    /\ path \in config.files
    /\ config' = [config EXCEPT !.files = @ \ {path}]
    /\ last' = MultiCall("remove_file", Some(path), OK, None, None, <<>>)
    /\ UNCHANGED <<trees, heap, _current, _tag_stack, _child_counts, ALLOWED_TAGS,
                   session, calls>>

\* the source tuples of up to two sources
SourceLists == {<<>>} \cup {<<a>> : a \in Sources} \cup {<<a, b>> : a, b \in Sources}

\* defaults = MultiDefault(*sources, skip_missing=...), in some file system
InitMulti ==
    /\ trees = <<TreeStore(None)>>
    /\ heap = <<>>
    /\ _current = _store
    /\ _tag_stack = <<>>
    /\ _child_counts = <<>>
    /\ ALLOWED_TAGS = None
    /\ session = [self |-> _store, peer |-> None]
    /\ \E sources \in SourceLists, skip_missing \in BOOLEAN, files \in SUBSET FilePaths :
           config = [multi |-> Some(MultiDefault(sources, skip_missing)), opts |-> None,
                     files |-> files, made |-> 0]
    /\ calls = <<(<<>>)>>
    /\ last = MultiCall("__init__", None, OK, None, None, <<>>)

NextMulti ==
    \/ resolve_call
    \/ \E key \in Keys : __getitem__(key)
    \/ __len__
    \/ \E path \in FilePaths : write_file(path)
    \/ \E path \in FilePaths : remove_file(path)

SpecMulti == InitMulti /\ [][NextMulti]_vars

----------------------------------------------------------------------------
(* dict_utils: SmartOptions over plain keys and scalar values              *)

AttributeError == "AttributeError"

\* the dict objects of the program: config.dicts[1] is the _data of the
\* SmartOptions, config.dicts[2] the dict its caller got from as_dict()
OptKeys == {"host", "port"}
OptValues == {"a", "b"}
Incoming == {<<>>, [host |-> "a"]}

\* d.pop(key, None) and del d[key]: the dict without key
pop(d, key) == [k \in DOMAIN d \ {key} |-> d[k]]

\* d[key] = value
setitem(d, key, value) == update(d, [k \in {key} |-> value])

\* SmartOptions.__init__(incoming): _data is a dict of its own, the
\* namespace holds the same entries as attributes
SmartOptions(incoming) == [_data |-> 1, attrs |-> incoming]

\* history: a SmartOptions method called, or the caller's dict changed
OptsCall(op, key, value, err, ret) ==
    [op |-> op, tag |-> None, name |-> None, err |-> err,
     key |-> key, value |-> value, ret |-> ret]

\* opts.key = value
__setattr__(key, value) ==
    LET self == config.opts[1]
    IN /\ config' = [config EXCEPT
                        !.dicts[self._data] = setitem(@, key, value),
                        !.opts[1].attrs = setitem(@, key, value)]
       /\ last' = OptsCall("__setattr__", Some(key), Some(value), OK, None)
       /\ UNCHANGED <<trees, heap, _current, _tag_stack, _child_counts, ALLOWED_TAGS,
                      session, calls>>

\* del opts.key
__delattr__(key) ==
    LET self == config.opts[1]
        popped == [config EXCEPT !.dicts[self._data] = pop(@, key)]
    IN /\ IF key \notin DOMAIN self.attrs
          THEN /\ config' = popped
               /\ last' = OptsCall("__delattr__", Some(key), None, AttributeError, None)
          ELSE /\ config' = [popped EXCEPT !.opts[1].attrs = pop(@, key)]
               /\ last' = OptsCall("__delattr__", Some(key), None, OK, None)
       /\ UNCHANGED <<trees, heap, _current, _tag_stack, _child_counts, ALLOWED_TAGS,
                      session, calls>>

\* variant: as_dict() hands out _data itself
as_dict_opts_alias ==
    LET self == config.opts[1]
    IN /\ config' = [config EXCEPT !.held = Some(self._data)]
       /\ last' = OptsCall("as_dict", None, None, OK, Some(self._data))
       /\ UNCHANGED <<trees, heap, _current, _tag_stack, _child_counts, ALLOWED_TAGS,
                      session, calls>>

\* d = opts.as_dict(): a new dict with the entries of _data, which the
\* caller keeps in place of the one it held
as_dict_opts ==
    LET self == config.opts[1]
    IN /\ config' = [config EXCEPT !.dicts = <<@[1], @[self._data]>>,
                                   !.held = Some(2)]
       /\ last' = OptsCall("as_dict", None, None, OK, Some(2))
       /\ UNCHANGED <<trees, heap, _current, _tag_stack, _child_counts, ALLOWED_TAGS,
                      session, calls>>

\* the caller: d[key] = value on the dict it holds
held_setitem(key, value) ==
    /\ config.held # None
    /\ config' = [config EXCEPT !.dicts[config.held[1]] = setitem(@, key, value)]
    /\ last' = OptsCall("setitem", Some(key), Some(value), OK, None)
    /\ UNCHANGED <<trees, heap, _current, _tag_stack, _child_counts, ALLOWED_TAGS,
                   session, calls>>

\* the caller: del d[key] on the dict it holds
held_delitem(key) ==
    /\ config.held # None
    /\ key \in DOMAIN config.dicts[config.held[1]]
    /\ config' = [config EXCEPT !.dicts[config.held[1]] = pop(@, key)]
    /\ last' = OptsCall("delitem", Some(key), None, OK, None)
    /\ UNCHANGED <<trees, heap, _current, _tag_stack, _child_counts, ALLOWED_TAGS,
                   session, calls>>

\* opts = SmartOptions(incoming)
InitOptions ==
    /\ trees = <<TreeStore(None)>>
    /\ heap = <<>>
    /\ _current = _store
    /\ _tag_stack = <<>>
    /\ _child_counts = <<>>
    /\ ALLOWED_TAGS = None
    /\ session = [self |-> _store, peer |-> None]
    /\ \E incoming \in Incoming :
           config = [multi |-> None, opts |-> Some(SmartOptions(incoming)),
                     dicts |-> <<incoming>>, held |-> None]
    /\ calls = <<(<<>>)>>
    /\ last = OptsCall("__init__", None, None, OK, None)

NextOptions ==
    \/ \E key \in OptKeys, value \in OptValues : __setattr__(key, value)
    \/ \E key \in OptKeys : __delattr__(key)
    \/ as_dict_opts
    \/ \E key \in OptKeys, value \in OptValues : held_setitem(key, value)
    \/ \E key \in OptKeys : held_delitem(key)

SpecOptions == InitOptions /\ [][NextOptions]_vars

----------------------------------------------------------------------------
(* Vocabulary of the properties *)

\* the cardinality table registered for the tag of scope t (None at the root
\* and for a tag whose method declares none)
ScopeTable(t) ==
    IF trees[t]._tag = None THEN None
    ELSE IF trees[t]._tag[1] \notin DOMAIN BuilderMethods THEN None
    ELSE BuilderMethods[trees[t]._tag[1]]

AtRoot == trees[_current].parent = None

\* the step is a branch or leaf call (it may have raised)
Inserting == last'.op \in {"branch", "leaf"}

\* the whitelist lets the tag through
Whitelisted(tag) == ALLOWED_TAGS = None \/ tag \in ALLOWED_TAGS[1]

TreeUnchanged == trees' = trees /\ heap' = heap

\* scope t lacks a child its table requires
LacksMandatory(t) ==
    /\ ScopeTable(t) # None
    /\ \E tag \in DOMAIN ScopeTable(t)[1] :
           Added(t, tag) < ScopeTable(t)[1][tag][1]

RECURSIVE Path(_)
\* the open scopes: the trees from t up to, not including, the root
Path(t) == IF trees[t].parent = None THEN {}
           ELSE {t} \cup Path(heap[trees[t].parent[1]].parent)

----------------------------------------------------------------------------
(* C1..C10: validation, labels and failure behaviour of the builder *)

\* C1: a branch/leaf of tag t in a scope whose table gives t a maximum m
\* raises TooManyChildrenError if and only if m children of tag t were
\* already added to that same scope.
C1_TooManyIffScopeFull ==
    [][(/\ Inserting
        /\ Whitelisted(last'.tag[1])
        /\ ScopeTable(_current) # None
        /\ last'.tag[1] \in DOMAIN ScopeTable(_current)[1]
        /\ ScopeTable(_current)[1][last'.tag[1]][2] # None)
       => (last'.err = TooManyChildrenError
             <=> Added(_current, last'.tag[1]) >= ScopeTable(_current)[1][last'.tag[1]][2][1])]_vars

\* C2: up() in an open scope raises MissingChildError if and only if the
\* scope's table requires a child of which too few were added in that scope.
C2_MissingIffScopeLacks ==
    [][(last'.op = "up" /\ ~AtRoot)
       => (last'.err = MissingChildError <=> LacksMandatory(_current))]_vars

\* C3: build() raises MissingChildError if some scope on the cursor's path
\* lacks a mandatory child, and otherwise ends without error with the cursor
\* at the root and an empty tag stack.
C3_BuildValidatesPath ==
    [][last'.op = "build"
       => IF \E t \in Path(_current) : LacksMandatory(t)
          THEN last'.err = MissingChildError
          ELSE last'.err = OK /\ _current' = _store /\ _tag_stack' = <<>>]_vars

\* C4: in a scope with a table, a branch/leaf of a tag that is not a key of
\* the table raises InvalidChildError and adds no node.
C4_InvalidChildOutsideTable ==
    [][(/\ Inserting
        /\ ScopeTable(_current) # None
        /\ last'.tag[1] \notin DOMAIN ScopeTable(_current)[1])
       => (last'.err = InvalidChildError /\ TreeUnchanged)]_vars

\* C4 witness: a tag outside the table was rejected in a scope that already
\* holds a child branch which was opened and closed again, with no whitelist
C4_Witness ==
    /\ ALLOWED_TAGS = None
    /\ last.op = "branch" /\ last.err = InvalidChildError
    /\ ScopeTable(_current) # None
    /\ last.tag[1] \notin DOMAIN ScopeTable(_current)[1]
    /\ \E i \in 1..Len(trees[_current].nodes) : heap[trees[_current].nodes[i]].value.isTree

\* C5: with a whitelist configured, a branch/leaf of a tag outside the
\* whitelist raises InvalidChildError in every scope and leaves the tree as
\* it was.
C5_WhitelistRejects ==
    [][(Inserting /\ ALLOWED_TAGS # None /\ last'.tag[1] \notin ALLOWED_TAGS[1])
       => (last'.err = InvalidChildError /\ TreeUnchanged)]_vars

\* C5 witness: a tag outside the whitelist was rejected inside a scope whose
\* table lists that tag
C5_Witness ==
    /\ ALLOWED_TAGS # None
    /\ last.op \in {"branch", "leaf"} /\ last.err = InvalidChildError
    /\ last.tag[1] \notin ALLOWED_TAGS[1]
    /\ ScopeTable(_current) # None
    /\ last.tag[1] \in DOMAIN ScopeTable(_current)[1]

\* C6: without a whitelist, at the root or in a scope without a table every
\* branch/leaf succeeds, and closing such a scope succeeds.
C6_FreeScopeAcceptsAll ==
    [][(ALLOWED_TAGS = None /\ ScopeTable(_current) = None)
       => /\ Inserting => last'.err = OK
          /\ (last'.op = "up" /\ ~AtRoot) => last'.err = OK]_vars

\* C6 witness: in an open scope without a table the same tag was added twice
C6_Witness ==
    /\ ALLOWED_TAGS = None
    /\ ~AtRoot /\ ScopeTable(_current) = None
    /\ last.op = "leaf" /\ last.err = OK
    /\ Added(_current, last.tag[1]) >= 2

\* C7: up() with the cursor at the root raises ValueError and changes
\* neither the cursor, the tag stack, the counts nor the tree.
C7_UpAtRootRaises ==
    [][(last'.op = "up" /\ AtRoot)
       => /\ last'.err = ValueError
          /\ UNCHANGED <<trees, heap, _current, _tag_stack, _child_counts>>]_vars

\* C7 witness: up() raised at the root after a scope was opened and closed
C7_Witness ==
    /\ last.op = "up" /\ last.err = ValueError
    /\ AtRoot
    /\ Len(trees) > 1

\* C8: the k-th branch/leaf call (from 0) of tag t without a name in a scope
\* creates the label t_k, which no node of the scope holds yet.  (Stated for
\* scopes in which no call passed the empty name, so that it does not rest
\* on C9.)
C8_AutoLabelSequence ==
    [][(/\ Inserting /\ last'.err = OK /\ last'.name = None
        /\ \A i \in 1..Len(calls[_current]) : calls[_current][i].name # Some(""))
       => /\ heap'[Len(heap')].label
               = last'.tag[1] \o "_" \o ToString(Unnamed(_current, last'.tag[1]))
          /\ heap'[Len(heap')].label \notin LabelSet(trees, heap, _current)]_vars

\* C9: a branch/leaf call given a name creates a node whose label is that
\* name.
C9_ExplicitNameVerbatim ==
    [][(Inserting /\ last'.err = OK /\ last'.name # None)
       => heap'[Len(heap')].label = last'.name[1]]_vars

\* C10: a call that raises InvalidChildError, TooManyChildrenError or
\* MissingChildError leaves every tree and every node as it was.
C10_FailureKeepsTree ==
    [][last'.err \in {InvalidChildError, TooManyChildrenError, MissingChildError}
       => TreeUnchanged]_vars

\* C10 witness: a third item was rejected in a scope that holds two items
C10_Witness ==
    /\ last.op = "leaf" /\ last.err = TooManyChildrenError
    /\ last.tag = Some("item")
    /\ Len(trees[_current].nodes) = 2
    /\ Added(_current, "item") = 2

----------------------------------------------------------------------------
(* C11..C17: the TreeStore hierarchy, its projection and its traversal *)

\* the branch nodes ever created, overwritten ones included
BranchNodes == {n \in DOMAIN heap : is_branch(heap, n)}
\* the nodes a tree holds now
NodesOf(t) == {trees[t].nodes[i] : i \in 1..Len(trees[t].nodes)}

\* C11: a tree with no back-reference has depth 0, and the child tree of
\* every branch node is exactly one level deeper than the tree that owns
\* the node, whatever calls (overwriting ones included) built the store.
C11_DepthLaw ==
    /\ \A t \in DOMAIN trees : trees[t].parent = None => depth(trees, heap, t) = 0
    /\ \A n \in BranchNodes :
           depth(trees, heap, heap[n].value.v) = depth(trees, heap, heap[n].parent) + 1

\* a branch was overwritten and a third level exists
C11_Witness ==
    /\ \E n \in BranchNodes : n \notin NodesOf(heap[n].parent)
    /\ \E t \in DOMAIN trees : depth(trees, heap, t) = 2

\* the trees on the parent chain of t, t included
Owners(t) == {t} \cup {heap[trees[u].parent[1]].parent : u \in Path(t)}

\* C12: root navigation from any tree ends at the tree without
\* back-reference on top of its parent chain; asking that root again gives
\* the same tree; a node, the tree that holds it and the child tree of a
\* branch node all report the same root.
C12_RootLaw ==
    /\ \A t \in DOMAIN trees :
           LET r == root(trees, heap, t)
           IN /\ r \in Owners(t)
              /\ trees[r].parent = None
              /\ root(trees, heap, r) = r
    /\ \A n \in DOMAIN heap :
           /\ node_root(trees, heap, n) = root(trees, heap, heap[n].parent)
           /\ n \in BranchNodes =>
                  root(trees, heap, heap[n].value.v) = node_root(trees, heap, n)

\* a leaf sits two levels below the root
C12_Witness ==
    \E n \in DOMAIN heap :
        /\ ~is_branch(heap, n)
        /\ depth(trees, heap, heap[n].parent) = 2
        /\ node_root(trees, heap, n) = _store

\* every stored node points at the tree that stores it, and every child
\* store points back at the branch node that holds it
Linkage ==
    /\ \A t \in DOMAIN trees : \A n \in NodesOf(t) : heap[n].parent = t
    /\ \A n \in BranchNodes : trees[heap[n].value.v].parent = Some(n)

\* no tree that has a back-reference gets another one
NoReparent ==
    \A t \in DOMAIN trees : trees[t].parent # None => trees'[t].parent = trees[t].parent

\* C13: the parent links and the back-references agree in every state
\* reached by add_node (scalar values) and add_branch calls, and the
\* back-reference add_branch gave a tree never changes afterwards.
C13_DualLinkage == []Linkage /\ [][NoReparent]_vars

\* a direct add_branch replaced a branch that already had a child
C13_Witness ==
    /\ last.op = "add_branch"
    /\ \E n \in BranchNodes :
           /\ n \notin NodesOf(heap[n].parent)
           /\ heap[n].label = heap[last.ret].label
           /\ heap[n].parent = last.on
           /\ trees[heap[n].value.v].nodes # <<>>

\* the node tree t stores under a label
Stored(T, H, t, label) ==
    CHOOSE n \in {T[t].nodes[i] : i \in 1..Len(T[t].nodes)} : H[n].label = label

\* the child mapping laid over the attributes
Merge(attr, child) ==
    [k \in DOMAIN attr \cup DOMAIN child |-> IF k \in DOMAIN child THEN child[k] ELSE attr[k].v]

RECURSIVE Projection(_, _, _)
\* the mapping a tree projects to: label -> scalar value or nested mapping
Projection(T, H, t) ==
    [label \in LabelSet(T, H, t) |->
        LET n == Stored(T, H, t, label)
        IN IF ~is_branch(H, n) THEN H[n].value.v
           ELSE LET child == Projection(T, H, H[n].value.v)
                IN IF H[n].attr = NoAttr THEN child ELSE Merge(H[n].attr, child)]

RECURSIVE Observe(_, _, _)
\* what the holder of a returned object reads from it in the store <<T, H>>:
\* a dict gives its items, a value object its value, and a view of a tree
\* whatever that tree projects to at the time
Observe(x, T, H) ==
    IF "dict" \in DOMAIN x THEN [k \in DOMAIN x.dict |-> Observe(x.dict[k], T, H)]
    ELSE IF "view" \in DOMAIN x THEN Projection(T, H, x.view)
    ELSE x.v

\* the store built by add_branch('alice') and, inside it,
\* add_node('contact', {'contact': 0}, value=2)
AliceContact ==
    /\ Len(heap) = 2
    /\ heap[1] = TreeStoreNode("alice", NoAttr, TreeRef(2), _store)
    /\ heap[2] = TreeStoreNode("contact", ContactAttr, Scalar(2), 2)

\* C14: as_dict maps every label to the scalar value of a leaf (its
\* attributes are left out) or, for a branch, to the child mapping laid over
\* the node's attributes, the child entry winning on an equal key, and to
\* the child mapping alone when the branch has no attributes; the store
\* alice -> (contact -> 2) projects to {alice: {contact: 2}}.
C14_AsDictProjection ==
    last.op = "as_dict" =>
        /\ Observe(last.ret, trees, heap) = Projection(trees, heap, last.on)
        /\ AliceContact => Observe(last.ret, trees, heap) = [alice |-> [contact |-> 2]]

\* projected: a branch with attribute `contact` holding a leaf `contact`,
\* in a store a builder has also written to
C14_Witness ==
    /\ last.op = "as_dict"
    /\ \E n \in BranchNodes \cap NodesOf(_store) :
           /\ heap[n].attr = ContactAttr
           /\ \E c \in NodesOf(heap[n].value.v) :
                  /\ heap[c].label = "contact"
                  /\ ~is_branch(heap, c)
                  /\ Observe(last.ret, trees, heap)[heap[n].label]["contact"]
                         = heap[c].value.v
    /\ \E t \in DOMAIN trees : trees[t]._tag # None

\* a step that stores a node: a direct or a builder insertion that succeeded
Insertion == last'.op \in {"add_node", "add_branch", "branch", "leaf"} /\ heap' # heap

RECURSIVE JoinDots(_)
\* the labels of a chain joined with '.'
JoinDots(chain) ==
    IF Len(chain) = 1 THEN chain[1] ELSE chain[1] \o "." \o JoinDots(Tail(chain))

RECURSIVE PreOrder(_, _, _)
\* the nodes below tree t from position i on, depth first in insertion
\* order, each with the dotted chain of labels that leads to it
PreOrder(t, chain, i) ==
    IF i > Len(trees[t].nodes) THEN <<>>
    ELSE LET n == trees[t].nodes[i]
             here == Append(chain, heap[n].label)
         IN <<(<<JoinDots(here), n>>)>>
            \o (IF is_branch(heap, n) THEN PreOrder(heap[n].value.v, here, 1) ELSE <<>>)
            \o PreOrder(t, chain, i + 1)

\* C16: walk() on the root tree yields every node below it once, a branch
\* node right before its descendants, siblings in insertion order, each with
\* the '.'-joined chain of labels from the root down to the node.
C16_WalkPreOrder ==
    (last.op = "walk" /\ last.on = _store) => last.ret = PreOrder(_store, <<>>, 1)

\* C17: add_node / add_branch with a label the tree already holds raises
\* nothing and replaces the node: the tree holds as many nodes as before,
\* the label maps to the node just created, every other label maps to the
\* node it mapped to, and no other tree or node changes.
C17_OverwriteReplaces ==
    [][(/\ last'.op \in {"add_node", "add_branch"}
        /\ last'.label[1] \in LabelSet(trees, heap, last'.on))
       => LET t == last'.on
              label == last'.label[1]
          IN /\ last'.err = OK
             /\ last'.ret \notin DOMAIN heap
             /\ heap'[last'.ret].label = label
             /\ Len(trees'[t].nodes) = Len(trees[t].nodes)
             /\ LabelSet(trees', heap', t) = LabelSet(trees, heap, t)
             /\ Stored(trees', heap', t, label) = last'.ret
             /\ \A l \in LabelSet(trees, heap, t) \ {label} :
                    Stored(trees', heap', t, l) = Stored(trees, heap, t, l)
             /\ \A u \in DOMAIN trees \ {t} : trees'[u] = trees[u]
             /\ \A m \in DOMAIN heap : heap'[m] = heap[m]
      ]_vars

\* a leaf took the place of the first of two nodes of a tree
C17_Witness ==
    /\ last.op = "add_node"
    /\ Len(trees[last.on].nodes) = 2
    /\ trees[last.on].nodes[1] = last.ret
    /\ \E m \in DOMAIN heap :
           m # last.ret /\ heap[m].parent = last.on /\ heap[m].label = heap[last.ret].label

----------------------------------------------------------------------------
(* C18, C19: the cardinality tables *)

\* what the written forms stand for
CardinalityCases ==
    {<<StrSpec("0"), <<0, Some(0)>> >>, <<StrSpec("1"), <<1, Some(1)>> >>,
     <<StrSpec("12"), <<12, Some(12)>> >>,
     <<StrSpec("0:"), <<0, None>> >>, <<StrSpec("1:"), <<1, None>> >>,
     <<StrSpec(":"), <<0, None>> >>, <<StrSpec(":5"), <<0, Some(5)>> >>,
     <<StrSpec("0:3"), <<0, Some(3)>> >>, <<StrSpec("1:3"), <<1, Some(3)>> >>,
     <<StrSpec("2:10"), <<2, Some(10)>> >>}

SpecTypes == {"str", "int", "bool"}

\* C18: true parses to (0, unbounded), an integer n to (n, n), a string
\* without colon to (n, n), 'min:max' to (min or 0, max or unbounded); a
\* spec of any other type raises ValueError, and it does so when the
\* decorator is applied, which then attaches no table.
C18_CardinalityParsing ==
    /\ last.op = "_parse_cardinality" =>
           /\ last.args = BoolSpec(TRUE) => last.ret = <<0, None>>
           /\ last.args.t = "int" => last.ret = <<last.args.v, Some(last.args.v)>>
           /\ \A c \in CardinalityCases : last.args = c[1] => last.ret = c[2]
           /\ last.args.t \notin SpecTypes => last.err = ValueError
    /\ last.op = "valid_children" =>
           ((\E tag \in DOMAIN last.args.constraints :
                 last.args.constraints[tag].t \notin SpecTypes)
            => last.err = ValueError /\ last.ret = Raised(ValueError))

\* a decorator with one sound constraint and one of type float was applied
C18_Witness ==
    /\ last.op = "valid_children"
    /\ last.args.constraints = [div |-> StrSpec("1:3"), p |-> OtherSpec("float", "1.5")]
    /\ last.err = ValueError

\* C19: the table a decorator registers has exactly the bare tags and the
\* named tags as keys; a tag given only bare carries (0, unbounded), a
\* named tag carries its parsed rule, also when it is given bare as well.
C19_RegisteredTable ==
    (last.op = "valid_children" /\ last.err = OK) =>
        LET allowed == last.args.allowed
            constraints == last.args.constraints
        IN /\ DOMAIN last.ret = allowed \cup DOMAIN constraints
           /\ \A tag \in allowed \ DOMAIN constraints : last.ret[tag] = <<0, None>>
           /\ \A tag \in DOMAIN constraints :
                  last.ret[tag] = _parse_cardinality(constraints[tag])

\* div was given bare and as div='1:3', next to a bare span and p=True
C19_Witness ==
    /\ last.op = "valid_children"
    /\ last.args = [allowed |-> {"div", "span"},
                    constraints |-> [div |-> StrSpec("1:3"), p |-> BoolSpec(TRUE)]]
    /\ last.ret = [div |-> <<1, Some(3)>>, span |-> <<0, None>>, p |-> <<0, None>>]

----------------------------------------------------------------------------
(* C20: independence of two builders *)

\* the trees and nodes of the hierarchy under a root store
Graph(store) ==
    LET ts == {t \in DOMAIN trees : root(trees, heap, t) = store}
    IN [ts |-> ts, ns |-> {n \in DOMAIN heap : heap[n].parent \in ts}]

\* all there is to the builder kept aside: its attributes and its hierarchy
PeerView ==
    LET b == session.peer[1]
        g == Graph(b._store)
    IN [attributes |-> b,
        trees |-> [t \in g.ts |-> trees[t]],
        nodes |-> [n \in g.ns |-> heap[n]]]

\* the two builders hold no tree in common, and each cursor is in the
\* hierarchy of its own builder
Apart ==
    /\ Graph(session.self).ts \cap Graph(session.peer[1]._store).ts = {}
    /\ _current \in Graph(session.self).ts
    /\ session.peer[1]._current \in Graph(session.peer[1]._store).ts

----------------------------------------------------------------------------
(* MultiDefault and SmartOptions *)

MultiOps == {"resolve", "__getitem__", "__len__"}

\* source i of self can be read in the file system files
Readable(self, files, i) ==
    self._sources[i].kind = "dict" \/ self._sources[i].path \in files

\* source i as flat keys
Flat(self, files, i) ==
    flatten_dict(_load_source(self._sources[i], files).data, "")

\* the merged mapping: each flat key of a readable source, with the value the
\* last such source gives it
Merged(self, files) ==
    LET has(k) == {i \in 1..Len(self._sources) :
                      Readable(self, files, i) /\ k \in DOMAIN Flat(self, files, i)}
        keys == UNION {DOMAIN Flat(self, files, i) :
                          i \in {j \in 1..Len(self._sources) : Readable(self, files, j)}}
    IN [k \in keys |->
           Flat(self, files, CHOOSE i \in has(k) : \A j \in has(k) : j <= i)[k]]

\* the sources up to and including the first that cannot be read
UpToMissing(self, files) ==
    LET missing == {i \in 1..Len(self._sources) : ~Readable(self, files, i)}
        first == CHOOSE i \in missing : \A j \in missing : i <= j
    IN [i \in 1..first |-> i]

\* C21: resolution is lazy and cached. Construction loads no source and
\* caches nothing. A call of resolve() or of a Mapping method made while
\* nothing is cached loads the sources in order: when it succeeds it caches a
\* new dict holding the merged mapping and works on that dict, and when it
\* fails with FileNotFoundError it leaves the cache empty. A call made while a
\* dict is cached works on that same dict object and loads no source.
C21_LazyCachedResolve ==
    /\ [](last.op = "__init__" =>
             config.multi[1]._resolved = None /\ last.loaded = <<>>)
    /\ [][last'.op \in MultiOps =>
          LET self == config.multi[1]
              after == config'.multi[1]
          IN /\ after._sources = self._sources
             /\ self._resolved # None =>
                   /\ last'.obj = self._resolved
                   /\ last'.loaded = <<>>
                   /\ last'.err # FileNotFoundError
                   /\ after._resolved = self._resolved
             /\ self._resolved = None /\ last'.err # FileNotFoundError =>
                   /\ last'.obj # None
                   /\ last'.obj[1].id = config'.made
                   /\ config'.made = config.made + 1
                   /\ last'.obj[1].items = Merged(self, config.files)
                   /\ last'.loaded = [i \in 1..Len(self._sources) |-> i]
                   /\ after._resolved = last'.obj
             /\ last'.err = FileNotFoundError =>
                   /\ ~self._skip_missing
                   /\ self._resolved = None
                   /\ after._resolved = None
                   /\ last'.obj = None
                   /\ last'.loaded = UpToMissing(self, config.files)]_vars

\* a resolve() answered from the cache after an earlier resolve() had failed,
\* at a time when the file it read is gone again
C21_Witness ==
    /\ last.op = "resolve"
    /\ last.err = OK
    /\ last.loaded = <<>>
    /\ last.obj # None
    /\ last.obj[1].items = [server_host |-> Str("file")]
    /\ ~config.multi[1]._skip_missing
    /\ config.made = 2
    /\ config.files = {}

\* C22: the exported mapping stays in step with the attributes. In every
\* state _data holds exactly the attributes that are set, with their values;
\* an assignment sets the key to the value given and a deletion removes it,
\* leaving the other keys alone; as_dict() returns a dict, not _data itself,
\* with exactly those entries; and a change the caller makes to a dict it got
\* from as_dict() changes neither the attributes nor _data.
C22_OptionsInStep ==
    /\ [](config.dicts[config.opts[1]._data] = config.opts[1].attrs)
    /\ [][LET self == config.opts[1]
              after == config'.opts[1]
              key == last'.key[1]
          IN /\ after._data = self._data
             /\ last'.op = "__setattr__" =>
                   /\ key \in DOMAIN after.attrs
                   /\ after.attrs[key] = last'.value[1]
                   /\ pop(after.attrs, key) = pop(self.attrs, key)
             /\ last'.op = "__delattr__" =>
                   /\ key \notin DOMAIN after.attrs
                   /\ pop(after.attrs, key) = pop(self.attrs, key)
                   /\ last'.err = AttributeError <=> key \notin DOMAIN self.attrs
             /\ last'.op = "as_dict" =>
                   /\ last'.ret[1] # self._data
                   /\ config'.dicts[last'.ret[1]] = self.attrs
                   /\ after.attrs = self.attrs
             /\ last'.op \in {"setitem", "delitem"} =>
                   /\ after.attrs = self.attrs
                   /\ config'.dicts[self._data] = config.dicts[self._data]]_vars

\* the caller puts a key into the dict it got from as_dict() after that key
\* was deleted from the options and another one assigned
C22_Witness ==
    /\ last.op = "setitem"
    /\ last.key = Some("host")
    /\ config.held # None
    /\ config.dicts[config.held[1]] = [host |-> "b", port |-> "a"]
    /\ config.opts[1].attrs = [port |-> "b"]

----------------------------------------------------------------------------
(* C23..C30: the session state of the builder *)

\* the step is a builder call that went through
Succeeds(op) == last'.op = op /\ last'.err = OK

\* C23: the counts are kept per scope. The count held for a tag at the
\* cursor's depth is the number of children of that tag added to the scope
\* the cursor is in, and right after a branch is opened every count at the
\* new cursor depth is 0.
C23_CountsPerScope ==
    /\ [](\A tag \in Tags : _get_child_count(_current, tag) = Added(_current, tag))
    /\ [][Succeeds("branch")
          => \A tag \in Tags :
                 LET d == Len(_tag_stack')
                 IN d \in DOMAIN _child_counts' /\ tag \in DOMAIN _child_counts'[d]
                    => _child_counts'[d][tag] = 0]_vars

\* C24: a branch/leaf call that passes no name stores its node under a label
\* the cursor tree did not hold, so the tree grows by one node.
C24_FreshLabel ==
    [][(Inserting /\ last'.err = OK /\ last'.name = None)
       => /\ heap'[Len(heap')].label \notin LabelSet(trees, heap, _current)
          /\ Len(trees'[_current].nodes) = Len(trees[_current].nodes) + 1]_vars

\* C25: a builder call that raises leaves the cursor, the tag stack and the
\* child counts as they were.
C25_FailureKeepsSession ==
    [][last'.err # OK => UNCHANGED <<_current, _tag_stack, _child_counts>>]_vars

RECURSIVE TagPath(_)
\* the tags recorded on the trees from below the root down to tree t
TagPath(t) == IF trees[t].parent = None THEN <<>>
              ELSE Append(TagPath(heap[trees[t].parent[1]].parent), trees[t]._tag[1])

\* C26: the tag stack mirrors the cursor's path. It is as long as the cursor
\* tree is deep, its i-th entry is the tag recorded on the i-th tree on the
\* way from the root to the cursor, it is empty exactly at the root, and its
\* top is the tag of the cursor tree.
C26_StackMirrorsPath ==
    /\ Len(_tag_stack) = depth(trees, heap, _current)
    /\ _tag_stack = TagPath(_current)
    /\ _tag_stack = <<>> <=> AtRoot
    /\ ~AtRoot => _get_current_tag(_tag_stack) = trees[_current]._tag

\* a build() that raised after closing an inner scope
C26_Witness ==
    /\ last.op = "build" /\ last.err = MissingChildError
    /\ _tag_stack = <<"doc">>
    /\ \E t \in 1..Len(trees) : depth(trees, heap, t) = 2

\* C27: the cursor stays in the builder's hierarchy. The back-references of
\* the cursor tree lead to the builder's store, and every tree from the
\* cursor up to the root is the value of a node that its owning tree holds
\* now.
C27_CursorAttached ==
    /\ root(trees, heap, _current) = _store
    /\ \A t \in Path(_current) :
           LET n == trees[t].parent[1]
           IN /\ heap[n].value = TreeRef(t)
              /\ n \in NodesOf(heap[n].parent)

\* a branch opened under a name that replaced a node of the cursor tree
C27_Witness ==
    /\ last.op = "branch" /\ last.err = OK
    /\ last.name = Some("item_1")
    /\ Len(heap) = 3
    /\ Len(trees[_store].nodes) = 2
    /\ _current # _store

\* C28: a successful up() hands the cursor to the tree that holds the node of
\* the closed scope, one level higher, drops the last entry of the tag stack
\* and leaves every tree and node as it was; and a successful branch enters a
\* tree whose node the old cursor tree holds, with one entry pushed on the
\* old tag stack, so that an up() right after it restores both.
C28_UpRestores ==
    [][/\ Succeeds("up") =>
            /\ _current' = heap[trees[_current].parent[1]].parent
            /\ trees[_current].parent[1] \in NodesOf(_current')
            /\ depth(trees, heap, _current') = depth(trees, heap, _current) - 1
            /\ _tag_stack = Append(_tag_stack', _tag_stack[Len(_tag_stack)])
            /\ TreeUnchanged
       /\ Succeeds("branch") =>
            /\ heap'[trees'[_current'].parent[1]].parent = _current
            /\ _tag_stack' = Append(_tag_stack, last'.tag[1])]_vars

\* an up() that closed a scope to which nothing was added, one level below
\* the root
C28_Witness ==
    /\ last.op = "up" /\ last.err = OK
    /\ Len(_tag_stack) = 1
    /\ \E i \in 1..Len(trees[_current].nodes) :
           LET n == heap[trees[_current].nodes[i]]
           IN n.value.isTree /\ trees[n.value.v].nodes = <<>>

\* the count held in the counts C for tag at depth d
CountAt(C, d, tag) ==
    IF d \in DOMAIN C /\ tag \in DOMAIN C[d] THEN C[d][tag] ELSE 0

\* C29: a successful leaf leaves the cursor and the tag stack alone, creates
\* one scalar node and stores it in the cursor tree; the cursor tree keeps
\* its nodes under every other label, every other tree is unchanged, and the
\* only count that changes is that of the leaf's tag at the cursor depth,
\* which grows by 1.
C29_LeafFrame ==
    [][Succeeds("leaf") =>
          LET n == Len(heap')
          IN /\ UNCHANGED <<_current, _tag_stack>>
             /\ heap' = Append(heap, heap'[n])
             /\ ~heap'[n].value.isTree
             /\ heap'[n].parent = _current
             /\ Len(trees') = Len(trees)
             /\ \A t \in 1..Len(trees) : t # _current => trees'[t] = trees[t]
             /\ trees'[_current].parent = trees[_current].parent
             /\ NodesOf(_current)' =
                   {m \in NodesOf(_current) : heap[m].label # heap'[n].label} \cup {n}
             /\ \A d \in 0..MaxDepth, tag \in Tags :
                   CountAt(_child_counts', d, tag) =
                       CountAt(_child_counts, d, tag)
                       + (IF d = depth(trees, heap, _current) /\ tag = last'.tag[1]
                          THEN 1 ELSE 0)]_vars

\* a leaf stored in a scope below the root that holds another node
C29_Witness ==
    /\ last.op = "leaf" /\ last.err = OK
    /\ Len(_tag_stack) = 1
    /\ Len(trees[_current].nodes) = 2
    /\ CountAt(_child_counts, 1, last.tag[1]) = 1

\* C30: no session is stuck. Once the caller turns to completing the
\* session, by supplying each missing child that build() names and calling
\* build() again, build() eventually returns the store.
C30_SessionCompletes ==
    (session.pc = "finishing") ~> (session.pc = "done" /\ last.op = "build" /\ last.err = OK)

====
